---- MODULE Spec2Model ----
(***************************************************************************)
(* The fee-estimation core of the JSON-RPC server:                         *)
(*   crates/rpc/src/v05/method/estimate_fee.rs  (request type, error       *)
(*       taxonomy, the estimate_fee pipeline)                              *)
(*   crates/rpc/src/dto/fee.rs                  (version-aware serializer) *)
(*                                                                         *)
(* Text is a sequence of one-character strings, so that formatting and     *)
(* parsing are computed and not assumed.  A sum type is a record tagged by *)
(* its field k (or kind); variants carry differently named payloads.       *)
(***************************************************************************)
EXTENDS Integers, Sequences, FiniteSets, TLC

VARIABLES
    \* ---- dto/fee.rs: one serialization
    fe,             \* the executor's FeeEstimate handed to the serializer
    version,        \* the negotiated RpcVersion
    out,            \* the emitted field list, None before serialize ran
    \* ---- the error conversions of estimate_fee.rs
    upstream,       \* an error of a collaborator (engine, state, anyhow)
    err,            \* the EstimateFeeError
    appErr,         \* the ApplicationError
    \* ---- one estimate_fee request
    client,         \* how the client built the params: logical input, form, defect
    params,         \* the JSON-RPC params on the wire
    callerSkipNonceCheck, \* the skip_nonce_check of the documented contract;
                    \* estimate_fee(context, input) has no such parameter
    chainLen,       \* blocks 0..chainLen-1 have a header in the chain store
    pc,             \* where the request is
    decoded,        \* Result<EstimateFeeInput, DecodeError>
    headerLookup,   \* what db.block_header(block_id) returned
    resolved,       \* (header, pending) of the match on input.block_id
    state,          \* the ExecutionState
    mapperVerdict,  \* the transactions (by position) the mapper refused
    transactions,   \* the mapped batch
    engineCalls,    \* the arguments of every call of pathfinder_executor::estimate
    engineOutcome,  \* what the engine returned
    pendingReads,   \* number of reads of context.pending_data
    workerResult,   \* what the spawn_blocking closure ended with
    result,         \* what estimate_fee returned
    caller          \* the task that called estimate_fee

serVars == <<fe, version, out>>

errVars == <<upstream, err, appErr>>

callVars == <<client, params, callerSkipNonceCheck, chainLen, pc, decoded,
              headerLookup, resolved, state, mapperVerdict, transactions,
              engineCalls, engineOutcome, pendingReads, workerResult, result, caller>>

vars == <<serVars, errVars, callVars>>

None == [k |-> "none"]

Ok(v) == [k |-> "Ok", v |-> v]

Err(e) == [k |-> "Err", e |-> e]

\* Option
Some(v) == [k |-> "Some", v |-> v]

Nothing == [k |-> "None"]

(***************************************************************************)
(* Text                                                                    *)
(***************************************************************************)
HexChars == <<"0", "1", "2", "3", "4", "5", "6", "7", "8", "9",
              "a", "b", "c", "d", "e", "f">>

HexChar(d) == HexChars[d + 1]

RECURSIVE HexDigits(_)
HexDigits(n) ==
    IF n < 16 THEN <<HexChar(n)>>
    ELSE HexDigits(n \div 16) \o <<HexChar(n % 16)>>

\* super::U256Hex: "0x", lowercase, no leading zeros, zero is "0x0".
U256Hex(n) == <<"0", "x">> \o HexDigits(n)

RECURSIVE DecDigits(_)
\* Display of an unsigned integer, as format!("{}") renders transaction_index.
DecDigits(n) ==
    IF n < 10 THEN <<HexChar(n)>>
    ELSE DecDigits(n \div 10) \o <<HexChar(n % 10)>>

(***************************************************************************)
(* dto/fee.rs                                                              *)
(***************************************************************************)
RpcVersionOrder == <<"V06", "V07", "V08", "V09">>

RpcVersion == {RpcVersionOrder[i] : i \in 1..Len(RpcVersionOrder)}

VersionRank(v) == CHOOSE i \in 1..Len(RpcVersionOrder) : RpcVersionOrder[i] = v

\* serializer.version >= RpcVersion::V08 (derived PartialOrd: declaration order)
VersionAtLeast(v, w) == VersionRank(v) >= VersionRank(w)

GasValues == {0, 26, 255}

PriceUnits == {"Wei", "Fri"}

\* pathfinder_executor::types::FeeEstimate as dto/fee.rs reads it
ExecutorFeeEstimate ==
    [l1_gas_consumed : GasValues, l1_gas_price : GasValues,
     l1_data_gas_consumed : GasValues, l1_data_gas_price : GasValues,
     l2_gas_consumed : GasValues, l2_gas_price : GasValues,
     overall_fee : GasValues, unit : PriceUnits]

serialize_field(name, value) == [name |-> name, value |-> value]

PriceUnit_serialize(unit) ==
    CASE unit = "Wei" -> <<"W", "E", "I">>
      [] unit = "Fri" -> <<"F", "R", "I">>

serialize_swapped(self, v) ==
    IF VersionAtLeast(v, "V08")
    THEN << serialize_field("l1_gas_consumed", U256Hex(self.l1_gas_consumed)),
            serialize_field("l1_gas_price", U256Hex(self.l1_gas_price)),
            serialize_field("l1_data_gas_consumed", U256Hex(self.l1_data_gas_consumed)),
            serialize_field("l1_data_gas_price", U256Hex(self.l1_data_gas_price)),
            serialize_field("l2_gas_consumed", U256Hex(self.l2_gas_consumed)),
            serialize_field("l2_gas_price", U256Hex(self.l2_gas_price)),
            serialize_field("overall_fee", U256Hex(self.overall_fee)),
            serialize_field("unit", PriceUnit_serialize(self.unit)) >>
    ELSE << serialize_field("gas_price", U256Hex(self.l1_gas_consumed)),
            serialize_field("gas_consumed", U256Hex(self.l1_gas_price)),
            serialize_field("data_gas_consumed", U256Hex(self.l1_data_gas_consumed)),
            serialize_field("data_gas_price", U256Hex(self.l1_data_gas_price)),
            serialize_field("overall_fee", U256Hex(self.overall_fee)),
            serialize_field("unit", PriceUnit_serialize(self.unit)) >>

\* impl SerializeForVersion for FeeEstimate
serialize(self, v) ==
    IF VersionAtLeast(v, "V08")
    THEN << serialize_field("l1_gas_consumed", U256Hex(self.l1_gas_consumed)),
            serialize_field("l1_gas_price", U256Hex(self.l1_gas_price)),
            serialize_field("l1_data_gas_consumed", U256Hex(self.l1_data_gas_consumed)),
            serialize_field("l1_data_gas_price", U256Hex(self.l1_data_gas_price)),
            serialize_field("l2_gas_consumed", U256Hex(self.l2_gas_consumed)),
            serialize_field("l2_gas_price", U256Hex(self.l2_gas_price)),
            serialize_field("overall_fee", U256Hex(self.overall_fee)),
            serialize_field("unit", PriceUnit_serialize(self.unit)) >>
    ELSE << serialize_field("gas_price", U256Hex(self.l1_gas_price)),
            serialize_field("gas_consumed", U256Hex(self.l1_gas_consumed)),
            serialize_field("data_gas_consumed", U256Hex(self.l1_data_gas_consumed)),
            serialize_field("data_gas_price", U256Hex(self.l1_data_gas_price)),
            serialize_field("overall_fee", U256Hex(self.overall_fee)),
            serialize_field("unit", PriceUnit_serialize(self.unit)) >>

(***************************************************************************)
(* estimate_fee.rs: the error taxonomy                                     *)
(***************************************************************************)
\* An anyhow::Error is its chain of messages, outermost context first.
Context(e, c) == <<c>> \o e

Causes == {<<"disk I/O error">>, <<"Querying storage", "database is locked">>,
           <<"class compilation failed">>}

\* What the engine's per-transaction failure displays as.
Messages == {<<"o", "o", "g">>, <<"1", ":", " ", "x">>, <<>>}

ErrorPrefix ==
    <<"E", "x", "e", "c", "u", "t", "i", "o", "n", " ",
      "e", "r", "r", "o", "r", " ",
      "a", "t", " ",
      "t", "r", "a", "n", "s", "a", "c", "t", "i", "o", "n", " ",
      "i", "n", "d", "e", "x", " ">>

\* format!("Execution error at transaction index {}: {}", transaction_index, error)
FormatRevert(transaction_index, error) ==
    ErrorPrefix \o DecDigits(transaction_index) \o <<":", " ">> \o error

\* impl From<anyhow::Error> for EstimateFeeError
FromAnyhow(e) == [kind |-> "Internal", e |-> e]

FromTransactionExecutionError_lossy(value) ==
    CASE value.kind = "ExecutionError" ->
            [kind |-> "ContractErrorV05",
             revert_error |-> FormatRevert(0, value.error)]
      [] value.kind = "Internal" -> [kind |-> "Internal", e |-> value.e]
      [] value.kind = "Custom" -> [kind |-> "Custom", e |-> value.e]

\* impl From<pathfinder_executor::TransactionExecutionError> for EstimateFeeError
FromTransactionExecutionError(value) ==
    CASE value.kind = "ExecutionError" ->
            [kind |-> "ContractErrorV05",
             revert_error |-> FormatRevert(value.transaction_index, value.error)]
      [] value.kind = "Internal" -> [kind |-> "Internal", e |-> value.e]
      [] value.kind = "Custom" -> [kind |-> "Custom", e |-> value.e]

\* impl From<crate::executor::ExecutionStateError> for EstimateFeeError
FromExecutionStateError(error) ==
    CASE error.kind = "BlockNotFound" -> [kind |-> "BlockNotFound"]
      [] error.kind = "Internal" -> [kind |-> "Internal", e |-> error.e]

ToApplicationError_merged(value) ==
    CASE value.kind = "BlockNotFound" -> [kind |-> "BlockNotFound"]
      [] value.kind = "ContractNotFound" -> [kind |-> "BlockNotFound"]
      [] value.kind = "ContractErrorV05" ->
            [kind |-> "ContractErrorV05", revert_error |-> value.revert_error]
      [] value.kind = "Internal" -> [kind |-> "Internal", e |-> value.e]
      [] value.kind = "Custom" -> [kind |-> "Internal", e |-> value.e]

\* impl From<EstimateFeeError> for ApplicationError
ToApplicationError(value) ==
    CASE value.kind = "BlockNotFound" -> [kind |-> "BlockNotFound"]
      [] value.kind = "ContractNotFound" -> [kind |-> "ContractNotFound"]
      [] value.kind = "ContractErrorV05" ->
            [kind |-> "ContractErrorV05", revert_error |-> value.revert_error]
      [] value.kind = "Internal" -> [kind |-> "Internal", e |-> value.e]
      [] value.kind = "Custom" -> [kind |-> "Custom", e |-> value.e]

(***************************************************************************)
(* The wire: JSON values and the felts inside them                         *)
(***************************************************************************)
JStr(chars) == [k |-> "str", chars |-> chars]

JNum(n) == [k |-> "num", n |-> n]

JArr(items) == [k |-> "arr", items |-> items]

JObj(fields) == [k |-> "obj", fields |-> fields]

DecodeError == Err([kind |-> "DecodeError"])

HexVal(c) == (CHOOSE i \in 1..Len(HexChars) : HexChars[i] = c) - 1

IsHexChar(c) == \E i \in 1..Len(HexChars) : HexChars[i] = c

RECURSIVE StripZeros(_)
StripZeros(digits) ==
    IF digits # <<>> /\ Head(digits) = 0 THEN StripZeros(Tail(digits)) ELSE digits

\* A Felt is its big-endian hex digits without leading zeros (zero is <<>>).
ParseFelt(json) ==
    IF json.k # "str" THEN DecodeError
    ELSE LET s == json.chars IN
         IF /\ Len(s) >= 3
            /\ Len(s) <= 66
            /\ s[1] = "0"
            /\ s[2] = "x"
            /\ \A i \in 3..Len(s) : IsHexChar(s[i])
         THEN Ok(StripZeros([i \in 1..(Len(s) - 2) |-> HexVal(s[i + 2])]))
         ELSE DecodeError

FeltToHex(felt) ==
    <<"0", "x">> \o
    (IF felt = <<>> THEN <<"0">> ELSE [i \in 1..Len(felt) |-> HexChar(felt[i])])

ParseFelts(json) ==
    IF json.k # "arr" THEN DecodeError
    ELSE IF \E i \in 1..Len(json.items) : ParseFelt(json.items[i]).k = "Err" THEN DecodeError
    ELSE Ok([i \in 1..Len(json.items) |-> ParseFelt(json.items[i]).v])

FeltsToHex(felts) == JArr([i \in 1..Len(felts) |-> JStr(FeltToHex(felts[i]))])

\* TransactionVersion::ONE and ::ONE_WITH_QUERY_VERSION (2^128 + 1)
ONE == <<1>>

ZERO == <<>>

ONE_WITH_QUERY_VERSION == <<1>> \o [i \in 1..31 |-> 0] \o <<1>>

\* bit 128 of the version: the transaction is a query, not to be broadcast
HasQueryVersion(v) == Len(v) >= 33 /\ v[Len(v) - 32] % 2 = 1

\* the low 128 bits of the version
WithoutQueryVersion(v) ==
    IF Len(v) <= 32 THEN v ELSE StripZeros(SubSeq(v, Len(v) - 31, Len(v)))

INVOKE == <<"I", "N", "V", "O", "K", "E">>

InvokeV1Fields ==
    {"type", "version", "max_fee", "signature", "nonce", "sender_address", "calldata"}

InvokeV0Fields ==
    {"type", "version", "max_fee", "signature", "contract_address",
     "entry_point_selector", "calldata"}

\* Deserialize of BroadcastedTransaction: the `type` tag, then the version
\* without its query bit picks the variant; the version is stored as sent.
DecodeTransaction(json) ==
    IF json.k # "obj" THEN DecodeError
    ELSE LET o == json.fields IN
    IF ~({"type", "version"} \subseteq DOMAIN o) THEN DecodeError
    ELSE IF o.type # JStr(INVOKE) THEN DecodeError
    ELSE LET ver == ParseFelt(o.version) IN
    IF ver.k = "Err" THEN DecodeError
    ELSE IF WithoutQueryVersion(ver.v) = ONE THEN
        IF DOMAIN o # InvokeV1Fields THEN DecodeError
        ELSE LET max_fee == ParseFelt(o.max_fee)
                 signature == ParseFelts(o.signature)
                 nonce == ParseFelt(o.nonce)
                 sender_address == ParseFelt(o.sender_address)
                 calldata == ParseFelts(o.calldata)
             IN IF "Err" \in {max_fee.k, signature.k, nonce.k, sender_address.k, calldata.k}
                THEN DecodeError
                ELSE Ok([variant |-> "Invoke::V1", version |-> ver.v,
                         max_fee |-> max_fee.v, signature |-> signature.v,
                         nonce |-> nonce.v, sender_address |-> sender_address.v,
                         calldata |-> calldata.v])
    ELSE IF WithoutQueryVersion(ver.v) = ZERO THEN
        IF DOMAIN o # InvokeV0Fields THEN DecodeError
        ELSE LET max_fee == ParseFelt(o.max_fee)
                 signature == ParseFelts(o.signature)
                 contract_address == ParseFelt(o.contract_address)
                 entry_point_selector == ParseFelt(o.entry_point_selector)
                 calldata == ParseFelts(o.calldata)
             IN IF "Err" \in {max_fee.k, signature.k, contract_address.k,
                              entry_point_selector.k, calldata.k}
                THEN DecodeError
                ELSE Ok([variant |-> "Invoke::V0", version |-> ver.v,
                         max_fee |-> max_fee.v, signature |-> signature.v,
                         contract_address |-> contract_address.v,
                         entry_point_selector |-> entry_point_selector.v,
                         calldata |-> calldata.v])
    ELSE DecodeError

\* Deserialize of Vec<BroadcastedTransaction>
DecodeRequest(json) ==
    IF json.k # "arr" THEN DecodeError
    ELSE IF \E i \in 1..Len(json.items) : DecodeTransaction(json.items[i]).k = "Err"
    THEN DecodeError
    ELSE Ok([i \in 1..Len(json.items) |-> DecodeTransaction(json.items[i]).v])

PENDING == <<"p", "e", "n", "d", "i", "n", "g">>

LATEST == <<"l", "a", "t", "e", "s", "t">>

Pending == [k |-> "Pending"]

Latest == [k |-> "Latest"]

Number(n) == [k |-> "Number", number |-> n]

Hash(h) == [k |-> "Hash", hash |-> h]

\* Deserialize of pathfinder_common::BlockId
DecodeBlockId(json) ==
    CASE json.k = "str" ->
            IF json.chars = PENDING THEN Ok(Pending)
            ELSE IF json.chars = LATEST THEN Ok(Latest)
            ELSE DecodeError
      [] json.k = "obj" ->
            IF DOMAIN json.fields = {"block_number"} THEN
                IF json.fields.block_number.k = "num"
                THEN Ok(Number(json.fields.block_number.n)) ELSE DecodeError
            ELSE IF DOMAIN json.fields = {"block_hash"} THEN
                LET h == ParseFelt(json.fields.block_hash)
                IN IF h.k = "Ok" THEN Ok(Hash(h.v)) ELSE DecodeError
            ELSE DecodeError
      [] OTHER -> DecodeError

EstimateFeeInput_deserialize_lenient(json) ==
    CASE json.k = "arr" ->
            IF Len(json.items) < 2 THEN DecodeError
            ELSE LET request == DecodeRequest(json.items[1])
                     block_id == DecodeBlockId(json.items[2])
                 IN IF request.k = "Err" \/ block_id.k = "Err" THEN DecodeError
                    ELSE Ok([request |-> request.v, block_id |-> block_id.v])
      [] json.k = "obj" ->
            IF ~({"request", "block_id"} \subseteq DOMAIN json.fields) THEN DecodeError
            ELSE LET request == DecodeRequest(json.fields.request)
                     block_id == DecodeBlockId(json.fields.block_id)
                 IN IF request.k = "Err" \/ block_id.k = "Err" THEN DecodeError
                    ELSE Ok([request |-> request.v, block_id |-> block_id.v])
      [] OTHER -> DecodeError

EstimateFeeInput_deserialize_by_name(json) ==
    CASE json.k = "obj" ->
            IF DOMAIN json.fields # {"request", "block_id"} THEN DecodeError
            ELSE LET request == DecodeRequest(json.fields.request)
                     block_id == DecodeBlockId(json.fields.block_id)
                 IN IF request.k = "Err" \/ block_id.k = "Err" THEN DecodeError
                    ELSE Ok([request |-> request.v, block_id |-> block_id.v])
      [] OTHER -> DecodeError

\* #[derive(serde::Deserialize)] #[serde(deny_unknown_fields)] struct
\* EstimateFeeInput { request, block_id }: a sequence is read by position
\* (visit_seq: exactly two elements), a map by field name (visit_map: an
\* unknown key is an error, and so is a missing field).
EstimateFeeInput_deserialize(json) ==
    CASE json.k = "arr" ->
            IF Len(json.items) # 2 THEN DecodeError
            ELSE LET request == DecodeRequest(json.items[1])
                     block_id == DecodeBlockId(json.items[2])
                 IN IF request.k = "Err" \/ block_id.k = "Err" THEN DecodeError
                    ELSE Ok([request |-> request.v, block_id |-> block_id.v])
      [] json.k = "obj" ->
            IF DOMAIN json.fields \ {"request", "block_id"} # {} THEN DecodeError
            ELSE IF ~({"request", "block_id"} \subseteq DOMAIN json.fields) THEN DecodeError
            ELSE LET request == DecodeRequest(json.fields.request)
                     block_id == DecodeBlockId(json.fields.block_id)
                 IN IF request.k = "Err" \/ block_id.k = "Err" THEN DecodeError
                    ELSE Ok([request |-> request.v, block_id |-> block_id.v])
      [] OTHER -> DecodeError

(***************************************************************************)
(* The client side: the inputs a request is drawn from, and their          *)
(* encodings (the json! literals of tests::parsing)                        *)
(***************************************************************************)
MaxTxs == 2

MaxBlocks == 1

\* tests::parsing::test_invoke_txn
test_invoke_txn ==
    [variant |-> "Invoke::V1", version |-> ONE_WITH_QUERY_VERSION,
     max_fee |-> <<6>>, signature |-> <<(<<7>>)>>, nonce |-> <<8>>,
     sender_address |-> <<10, 10, 10>>, calldata |-> <<(<<15, 15>>)>>]

\* tests::in_memory: an invoke V1 that is not a query, and an invoke V0
invoke_transaction ==
    [variant |-> "Invoke::V1", version |-> ONE,
     max_fee |-> <<>>, signature |-> <<>>, nonce |-> <<2>>,
     sender_address |-> <<12, 0, 1>>, calldata |-> <<(<<1, 2>>), <<>> >>]

invoke_v0_transaction ==
    [variant |-> "Invoke::V0", version |-> ZERO,
     max_fee |-> <<>>, signature |-> <<>>, contract_address |-> <<1, 2>>,
     entry_point_selector |-> <<3, 4, 5>>, calldata |-> <<>>]

BroadcastedTransactions == {test_invoke_txn, invoke_transaction, invoke_v0_transaction}

HeaderHash(n) == <<10, 11, 12, 13, 14>> \o (IF n = 0 THEN <<>> ELSE <<n>>)

BlockIds ==
    {Pending, Latest} \cup {Number(n) : n \in 0..MaxBlocks}
                      \cup {Hash(HeaderHash(n)) : n \in 0..MaxBlocks}

Requests == UNION {[1..n -> BroadcastedTransactions] : n \in 0..MaxTxs}

EstimateFeeInputs == [request : Requests, block_id : BlockIds]

EncodeTransaction(tx) ==
    IF tx.variant = "Invoke::V1"
    THEN JObj([type |-> JStr(INVOKE), version |-> JStr(FeltToHex(tx.version)),
               max_fee |-> JStr(FeltToHex(tx.max_fee)),
               signature |-> FeltsToHex(tx.signature),
               nonce |-> JStr(FeltToHex(tx.nonce)),
               sender_address |-> JStr(FeltToHex(tx.sender_address)),
               calldata |-> FeltsToHex(tx.calldata)])
    ELSE JObj([type |-> JStr(INVOKE), version |-> JStr(FeltToHex(tx.version)),
               max_fee |-> JStr(FeltToHex(tx.max_fee)),
               signature |-> FeltsToHex(tx.signature),
               contract_address |-> JStr(FeltToHex(tx.contract_address)),
               entry_point_selector |-> JStr(FeltToHex(tx.entry_point_selector)),
               calldata |-> FeltsToHex(tx.calldata)])

EncodeBlockId(id) ==
    CASE id.k = "Pending" -> JStr(PENDING)
      [] id.k = "Latest" -> JStr(LATEST)
      [] id.k = "Number" -> JObj([block_number |-> JNum(id.number)])
      [] id.k = "Hash" -> JObj([block_hash |-> JStr(FeltToHex(id.hash))])

AddField(json, name, value) == JObj(json.fields @@ (name :> value))

Defects == {"none", "unknown_top", "unknown_transaction", "unknown_block_id",
            "missing_block_id"}

\* The defects that can be built into an input.
Applicable(input, defect) ==
    CASE defect = "unknown_transaction" -> input.request # <<>>
      [] defect = "unknown_block_id" -> input.block_id.k \in {"Number", "Hash"}
      [] OTHER -> TRUE

EncodeRequest(input, defect) ==
    JArr([i \in 1..Len(input.request) |->
            IF defect = "unknown_transaction" /\ i = 1
            THEN AddField(EncodeTransaction(input.request[i]), "extra", JStr(<<"0", "x", "1">>))
            ELSE EncodeTransaction(input.request[i])])

EncodeBlock(input, defect) ==
    IF defect = "unknown_block_id"
    THEN AddField(EncodeBlockId(input.block_id), "extra", JNum(0))
    ELSE EncodeBlockId(input.block_id)

\* json!([ [..], block_id ]), and in "unknown_top" a third element
EncodePositional(input, defect) ==
    CASE defect = "missing_block_id" -> JArr(<<EncodeRequest(input, defect)>>)
      [] defect = "unknown_top" ->
            JArr(<<EncodeRequest(input, defect), EncodeBlock(input, defect), JArr(<<>>)>>)
      [] OTHER -> JArr(<<EncodeRequest(input, defect), EncodeBlock(input, defect)>>)

\* json!({ "request": [..], "block_id": .. }), and in "unknown_top" a third key
EncodeNamed(input, defect) ==
    CASE defect = "missing_block_id" -> JObj([request |-> EncodeRequest(input, defect)])
      [] defect = "unknown_top" ->
            JObj([request |-> EncodeRequest(input, defect),
                  block_id |-> EncodeBlock(input, defect),
                  simulation_flags |-> JArr(<<>>)])
      [] OTHER -> JObj([request |-> EncodeRequest(input, defect),
                        block_id |-> EncodeBlock(input, defect)])

Encode(c) ==
    IF c.form = "positional" THEN EncodePositional(c.input, c.defect)
    ELSE EncodeNamed(c.input, c.defect)

Clients ==
    {c \in [input : EstimateFeeInputs, form : {"positional", "named"}, defect : Defects] :
        Applicable(c.input, c.defect)}

(***************************************************************************)
(* The collaborators of the pipeline                                       *)
(***************************************************************************)
\* context.chain_id and context.config.custom_versioned_constants
chain_id == "SN_SEPOLIA"

custom_versioned_constants == Nothing

StorageErrors == {<<"database is locked">>}

Header(n) == [number |-> n, hash |-> HeaderHash(n)]

\* db.block_header(block_id) on a chain of `len` blocks
block_header(len, block_id) ==
    CASE block_id.k = "Latest" ->
            IF len = 0 THEN Nothing ELSE Some(Header(len - 1))
      [] block_id.k = "Number" ->
            IF block_id.number < len THEN Some(Header(block_id.number)) ELSE Nothing
      [] block_id.k = "Hash" ->
            IF \E n \in 0..(len - 1) : HeaderHash(n) = block_id.hash
            THEN Some(Header(CHOOSE n \in 0..(len - 1) : HeaderHash(n) = block_id.hash))
            ELSE Nothing

\* context.pending_data.get(&db): the block being assembled on top of the chain
PendingData(len) ==
    [header |-> [number |-> len, hash |-> ZERO],
     state_update |-> [parent_number |-> len - 1, nonces |-> <<8>>]]

\* ExecutionState::simulation(&db, chain_id, header, pending, l1_blob_data_availability,
\*                            custom_versioned_constants)
ExecutionState_simulation(chain, header, pending, l1_blob_data_availability, constants) ==
    [chain_id |-> chain, header |-> header, pending_state |-> pending,
     l1_blob_data_availability |-> l1_blob_data_availability,
     custom_versioned_constants |-> constants]

\* crate::executor::map_broadcasted_transaction(&tx, chain_id); `fails` is the
\* mapper's verdict on this transaction
map_broadcasted_transaction(tx, chain, fails) ==
    IF fails THEN Err(<<"mapping the broadcasted transaction failed">>)
    ELSE Ok([transaction |-> tx, chain_id |-> chain])

\* the executor's FeeEstimate of this pipeline (the golden values of tests::in_memory)
RawFeeEstimates ==
    {[gas_consumed |-> 2768, gas_price |-> 1, overall_fee |-> 2768, unit |-> "Wei"],
     [gas_consumed |-> 1674, gas_price |-> 1, overall_fee |-> 1674, unit |-> "Wei"]}

\* what pathfinder_executor::estimate may return for a batch of n transactions
EngineOutcomes(n) ==
    {Ok(r) : r \in [1..n -> RawFeeEstimates]}
    \cup {Err([kind |-> "ExecutionError", transaction_index |-> i, error |-> m]) :
            i \in 0..(n - 1), m \in Messages}
    \cup {Err([kind |-> "Internal", e |-> c]) : c \in Causes}
    \cup {Err([kind |-> "Custom", e |-> c]) : c \in Causes}

(***************************************************************************)
(* estimate_fee                                                            *)
(***************************************************************************)
\* match input.block_id { BlockId::Pending => .., other => .. }
IsPending(block_id) == block_id.k = "Pending"

\* the BlockId::Pending arm; r is the outcome of context.pending_data.get(&db)
resolve_pending(r) ==
    IF r.k = "Err" THEN Err(FromAnyhow(Context(r.e, "Querying pending data")))
    ELSE Ok([header |-> r.v.header, pending |-> Some(r.v.state_update)])

resolve_other_overlaid(r) ==
    IF r.k = "Err" THEN Err(FromAnyhow(Context(r.e, "Querying block header")))
    ELSE IF r.v.k = "None" THEN Err([kind |-> "ContractNotFound"])
    ELSE Ok([header |-> r.v.v, pending |-> Some([parent_number |-> r.v.v.number,
                                                  nonces |-> <<8>>])])

\* the `other` arm; r is the outcome of db.block_header(block_id)
resolve_other(r) ==
    IF r.k = "Err" THEN Err(FromAnyhow(Context(r.e, "Querying block header")))
    ELSE IF r.v.k = "None" THEN Err([kind |-> "BlockNotFound"])
    ELSE Ok([header |-> r.v.v, pending |-> Nothing])

RECURSIVE collect_skipping(_, _, _)
collect_skipping(request, failing, i) ==
    IF i > Len(request) THEN <<>>
    ELSE (IF i \in failing THEN <<>>
          ELSE <<map_broadcasted_transaction(request[i], chain_id, FALSE).v>>)
         \o collect_skipping(request, failing, i + 1)

map_transactions_skipping(request, failing) == Ok(collect_skipping(request, failing, 1))

\* input.request.into_iter().map(|tx| map_broadcasted_transaction(&tx, chain_id))
\*      .collect::<Result<Vec<_>, _>>(): the first Err ends the collection
map_transactions(request, failing) ==
    IF \E i \in 1..Len(request) : i \in failing
    THEN LET first == CHOOSE i \in 1..Len(request) :
                        /\ i \in failing
                        /\ \A j \in 1..(i - 1) : j \notin failing
         IN Err(map_broadcasted_transaction(request[first], chain_id, TRUE).e)
    ELSE Ok([i \in 1..Len(request) |->
                map_broadcasted_transaction(request[i], chain_id, FALSE).v])

estimate_args_validating_nothing(st, txs) ==
    [state |-> st, transactions |-> txs, skip_validate |-> TRUE, skip_nonce_check |-> FALSE]

\* pathfinder_executor::estimate(state, transactions, false, true)
estimate_args(st, txs) ==
    [state |-> st, transactions |-> txs, skip_validate |-> FALSE, skip_nonce_check |-> TRUE]

\* impl From<pathfinder_executor::types::FeeEstimate> for FeeEstimate
FromFeeEstimate(value) ==
    [gas_consumed |-> value.gas_consumed, gas_price |-> value.gas_price,
     overall_fee |-> value.overall_fee]

into_fee_estimates_reversed(raw) ==
    [i \in 1..Len(raw) |-> FromFeeEstimate(raw[Len(raw) + 1 - i])]

\* result.into_iter().map(Into::into).collect()
into_fee_estimates(raw) == [i \in 1..Len(raw) |-> FromFeeEstimate(raw[i])]

\* the JoinHandle of spawn_blocking: a panic of the closure is a JoinError
Join(w) ==
    IF w.k = "Panicked" THEN Err(<<"task panicked">>) ELSE Ok(w)

await_result_trusting(w) ==
    IF w.k = "Ok" THEN Ok(into_fee_estimates(w.v))
    ELSE IF w.k = "Err" THEN w
    ELSE Ok(<<>>)

\* .await.context("Executing transaction")??; Ok(result.into_iter()...)
await_result(w) ==
    LET joined == Join(w) IN
    IF joined.k = "Err" THEN Err(FromAnyhow(Context(joined.e, "Executing transaction")))
    ELSE IF joined.v.k = "Err" THEN joined.v
    ELSE Ok(into_fee_estimates(joined.v.v))

WorkerPcs == {"connection", "transaction", "resolve", "simulation", "map", "estimate"}

Input == decoded.v

\* the closure returns Err(e) through `?`
Fail(e) ==
    /\ workerResult' = Err(e)
    /\ pc' = "join"

\* serde_json::from_value::<EstimateFeeInput>(params), before the method is called
Decode ==
    /\ pc = "received"
    /\ decoded' = EstimateFeeInput_deserialize(params)
    /\ pc' = IF decoded'.k = "Ok" THEN "decoded" ELSE "decode_error"
    /\ UNCHANGED <<serVars, errVars, client, params, callerSkipNonceCheck,
                   chainLen, headerLookup, resolved, state, mapperVerdict,
                   transactions, engineCalls, engineOutcome, pendingReads,
                   workerResult, result, caller>>

\* estimate_fee up to .await: the closure is handed to tokio::task::spawn_blocking
Call ==
    /\ pc = "decoded"
    /\ pc' = "connection"
    /\ caller' = "awaiting"
    /\ UNCHANGED <<serVars, errVars, client, params, callerSkipNonceCheck,
                   chainLen, decoded, headerLookup, resolved, state,
                   mapperVerdict, transactions, engineCalls, engineOutcome,
                   pendingReads, workerResult, result>>

\* context.execution_storage.connection().context("Creating database connection")?
Connection ==
    /\ pc = "connection"
    /\ \/ /\ pc' = "transaction"
          /\ UNCHANGED workerResult
       \/ \E e \in StorageErrors :
            Fail(FromAnyhow(Context(e, "Creating database connection")))
    /\ UNCHANGED <<serVars, errVars, client, params, callerSkipNonceCheck,
                   chainLen, decoded, headerLookup, resolved, state,
                   mapperVerdict, transactions, engineCalls, engineOutcome,
                   pendingReads, result, caller>>

\* db.transaction().context("Creating database transaction")?
Transaction ==
    /\ pc = "transaction"
    /\ \/ /\ pc' = "resolve"
          /\ UNCHANGED workerResult
       \/ \E e \in StorageErrors :
            Fail(FromAnyhow(Context(e, "Creating database transaction")))
    /\ UNCHANGED <<serVars, errVars, client, params, callerSkipNonceCheck,
                   chainLen, decoded, headerLookup, resolved, state,
                   mapperVerdict, transactions, engineCalls, engineOutcome,
                   pendingReads, result, caller>>

\* let (header, pending) = match input.block_id { .. };
Resolve ==
    /\ pc = "resolve"
    /\ IF IsPending(Input.block_id)
       THEN /\ pendingReads' = pendingReads + 1
            /\ UNCHANGED headerLookup
            /\ \E r \in {Ok(PendingData(chainLen))} \cup {Err(e) : e \in StorageErrors} :
                 LET got == resolve_pending(r) IN
                 IF got.k = "Ok"
                 THEN resolved' = got.v /\ pc' = "simulation" /\ UNCHANGED workerResult
                 ELSE Fail(got.e) /\ UNCHANGED resolved
       ELSE /\ UNCHANGED pendingReads
            /\ \E r \in {Ok(block_header(chainLen, Input.block_id))}
                            \cup {Err(e) : e \in StorageErrors} :
                 LET got == resolve_other(r) IN
                 /\ headerLookup' = r
                 /\ IF got.k = "Ok"
                    THEN resolved' = got.v /\ pc' = "simulation" /\ UNCHANGED workerResult
                    ELSE Fail(got.e) /\ UNCHANGED resolved
    /\ UNCHANGED <<serVars, errVars, client, params, callerSkipNonceCheck,
                   chainLen, decoded, state, mapperVerdict, transactions,
                   engineCalls, engineOutcome, result, caller>>

\* let state = ExecutionState::simulation(..);
Simulation ==
    /\ pc = "simulation"
    /\ state' = ExecutionState_simulation(chain_id, resolved.header, resolved.pending,
                                          "Disabled", custom_versioned_constants)
    /\ pc' = "map"
    /\ UNCHANGED <<serVars, errVars, client, params, callerSkipNonceCheck,
                   chainLen, decoded, headerLookup, resolved, mapperVerdict,
                   transactions, engineCalls, engineOutcome, pendingReads,
                   workerResult, result, caller>>

\* let transactions = input.request.into_iter().map(..).collect::<Result<..>>()?;
MapTransactions ==
    /\ pc = "map"
    /\ \E failing \in SUBSET (1..Len(Input.request)) :
         LET mapped == map_transactions(Input.request, failing) IN
         /\ mapperVerdict' = Some(failing)
         /\ IF mapped.k = "Ok"
            THEN transactions' = mapped.v /\ pc' = "estimate" /\ UNCHANGED workerResult
            ELSE Fail(FromAnyhow(mapped.e)) /\ UNCHANGED transactions
    /\ UNCHANGED <<serVars, errVars, client, params, callerSkipNonceCheck,
                   chainLen, decoded, headerLookup, resolved, state, engineCalls,
                   engineOutcome, pendingReads, result, caller>>

\* let result = pathfinder_executor::estimate(state, transactions, false, true)?;
\* Ok::<_, EstimateFeeError>(result)
Estimate ==
    /\ pc = "estimate"
    /\ engineCalls' = Append(engineCalls, estimate_args(state, transactions))
    /\ \E outcome \in EngineOutcomes(Len(transactions)) :
         /\ engineOutcome' = outcome
         /\ workerResult' = IF outcome.k = "Ok" THEN Ok(outcome.v)
                            ELSE Err(FromTransactionExecutionError(outcome.e))
    /\ pc' = "join"
    /\ UNCHANGED <<serVars, errVars, client, params, callerSkipNonceCheck,
                   chainLen, decoded, headerLookup, resolved, state,
                   mapperVerdict, transactions, pendingReads, result, caller>>

\* The closure panics inside one of the calls it makes; inside the engine call
\* the engine has been invoked.
WorkerPanic ==
    /\ pc \in WorkerPcs
    /\ workerResult' = [k |-> "Panicked"]
    /\ engineCalls' = IF pc = "estimate"
                      THEN Append(engineCalls, estimate_args(state, transactions))
                      ELSE engineCalls
    /\ pc' = "join"
    /\ UNCHANGED <<serVars, errVars, client, params, callerSkipNonceCheck,
                   chainLen, decoded, headerLookup, resolved, state,
                   mapperVerdict, transactions, engineOutcome, pendingReads,
                   result, caller>>

\* .await.context("Executing transaction")??; Ok(result.into_iter().map(Into::into).collect())
Await ==
    /\ pc = "join"
    /\ result' = await_result(workerResult)
    /\ pc' = "done"
    /\ caller' = "returned"
    /\ UNCHANGED <<serVars, errVars, client, params, callerSkipNonceCheck,
                   chainLen, decoded, headerLookup, resolved, state,
                   mapperVerdict, transactions, engineCalls, engineOutcome,
                   pendingReads, workerResult>>

SerIdle == fe = None /\ version = "V06" /\ out = <<>>

ErrIdle == upstream = None /\ err = None /\ appErr = None

CallIdle ==
    /\ client = None
    /\ params = None
    /\ callerSkipNonceCheck = FALSE
    /\ chainLen = 0
    /\ pc = "idle"
    /\ decoded = None
    /\ headerLookup = None
    /\ resolved = None
    /\ state = None
    /\ mapperVerdict = None
    /\ transactions = <<>>
    /\ engineCalls = <<>>
    /\ engineOutcome = None
    /\ pendingReads = 0
    /\ workerResult = None
    /\ result = None
    /\ caller = "idle"

Init ==
    /\ SerIdle
    /\ ErrIdle
    /\ client \in Clients
    /\ params = Encode(client)
    /\ callerSkipNonceCheck \in BOOLEAN
    /\ chainLen \in 0..MaxBlocks
    /\ pc = "received"
    /\ decoded = None
    /\ headerLookup = None
    /\ resolved = None
    /\ state = None
    /\ mapperVerdict = None
    /\ transactions = <<>>
    /\ engineCalls = <<>>
    /\ engineOutcome = None
    /\ pendingReads = 0
    /\ workerResult = None
    /\ result = None
    /\ caller = "idle"

Next ==
    \/ Decode
    \/ Call
    \/ Connection
    \/ Transaction
    \/ Resolve
    \/ Simulation
    \/ MapTransactions
    \/ Estimate
    \/ WorkerPanic
    \/ Await

Spec == Init /\ [][Next]_vars

(***************************************************************************)
(* The serializer on its own                                               *)
(***************************************************************************)
InitSer ==
    /\ fe \in ExecutorFeeEstimate
    /\ version \in RpcVersion
    /\ out = <<>>
    /\ ErrIdle
    /\ CallIdle

Serialize ==
    /\ out = <<>>
    /\ out' = serialize(fe, version)
    /\ UNCHANGED <<fe, version, errVars, callVars>>

NextSer == Serialize

SpecSer == InitSer /\ [][NextSer]_vars

(***************************************************************************)
(* The error conversions on their own                                      *)
(***************************************************************************)
MaxIndex == 12

TransactionExecutionErrors ==
    {[kind |-> "ExecutionError", transaction_index |-> i, error |-> m] :
        i \in 0..MaxIndex, m \in Messages}
    \cup {[kind |-> "Internal", e |-> c] : c \in Causes}
    \cup {[kind |-> "Custom", e |-> c] : c \in Causes}

ExecutionStateErrors ==
    {[kind |-> "BlockNotFound"]} \cup {[kind |-> "Internal", e |-> c] : c \in Causes}

Upstreams ==
    {[from |-> "TransactionExecutionError", v |-> e] : e \in TransactionExecutionErrors}
    \cup {[from |-> "ExecutionStateError", v |-> e] : e \in ExecutionStateErrors}
    \cup {[from |-> "anyhow::Error", chain |-> c] : c \in Causes}

InitErr ==
    /\ SerIdle
    /\ CallIdle
    /\ appErr = None
    /\ \/ upstream \in Upstreams /\ err = None
       \/ upstream = None /\ err \in {[kind |-> "BlockNotFound"], [kind |-> "ContractNotFound"]}

\* the From impls that `?` applies inside estimate_fee
IntoEstimateFeeError ==
    /\ err = None
    /\ err' = CASE upstream.from = "TransactionExecutionError" ->
                        FromTransactionExecutionError(upstream.v)
                [] upstream.from = "ExecutionStateError" ->
                        FromExecutionStateError(upstream.v)
                [] upstream.from = "anyhow::Error" -> FromAnyhow(upstream.chain)
    /\ UNCHANGED <<upstream, appErr, serVars, callVars>>

\* the error leaves the method as an ApplicationError
IntoApplicationError ==
    /\ err # None
    /\ appErr = None
    /\ appErr' = ToApplicationError(err)
    /\ UNCHANGED <<upstream, err, serVars, callVars>>

NextErr ==
    \/ IntoEstimateFeeError
    \/ IntoApplicationError

SpecErr == InitErr /\ [][NextErr]_vars

(***************************************************************************)
(* Properties                                                              *)
(***************************************************************************)
Finished == pc = "done"

\* C1: a successful call on n transactions returns n estimates, the i-th being
\* the conversion of the engine's i-th raw result, and the engine was handed
\* the mapping of request[i] at position i: nothing is dropped, duplicated or
\* reordered between the input, the engine's batch and the returned sequence.
C1_OrderPreserved ==
    (Finished /\ result.k = "Ok") =>
        /\ Len(result.v) = Len(Input.request)
        /\ Len(engineCalls) = 1
        /\ Len(engineCalls[1].transactions) = Len(Input.request)
        /\ engineOutcome.k = "Ok"
        /\ Len(engineOutcome.v) = Len(Input.request)
        /\ \A i \in 1..Len(Input.request) :
            /\ engineCalls[1].transactions[i].transaction = Input.request[i]
            /\ DOMAIN result.v[i] = {"gas_consumed", "gas_price", "overall_fee"}
            /\ result.v[i].gas_consumed = engineOutcome.v[i].gas_consumed
            /\ result.v[i].gas_price = engineOutcome.v[i].gas_price
            /\ result.v[i].overall_fee = engineOutcome.v[i].overall_fee

C1_Witness ==
    /\ Finished
    /\ result.k = "Ok"
    /\ Len(result.v) = 2
    /\ result.v[1] # result.v[2]
    /\ Input.request[1] # Input.request[2]

FieldNames(fields) == [i \in 1..Len(fields) |-> fields[i].name]

FieldValue(fields, name) ==
    fields[CHOOSE i \in 1..Len(fields) : fields[i].name = name].value

\* C2: serialize emits exactly the eight l1_/l2_ fields, in order, from V08 on
\* and exactly the six pre-0.8 fields before; the values are those of the
\* estimate, the same across the two shapes.
C2_VersionShape ==
    out # <<>> =>
        /\ IF version \in {"V08", "V09"}
           THEN /\ FieldNames(out) =
                      <<"l1_gas_consumed", "l1_gas_price", "l1_data_gas_consumed",
                        "l1_data_gas_price", "l2_gas_consumed", "l2_gas_price",
                        "overall_fee", "unit">>
                /\ FieldValue(out, "l1_gas_consumed") = U256Hex(fe.l1_gas_consumed)
                /\ FieldValue(out, "l1_gas_price") = U256Hex(fe.l1_gas_price)
                /\ FieldValue(out, "l1_data_gas_consumed") = U256Hex(fe.l1_data_gas_consumed)
                /\ FieldValue(out, "l1_data_gas_price") = U256Hex(fe.l1_data_gas_price)
                /\ FieldValue(out, "l2_gas_consumed") = U256Hex(fe.l2_gas_consumed)
                /\ FieldValue(out, "l2_gas_price") = U256Hex(fe.l2_gas_price)
           ELSE /\ FieldNames(out) =
                      <<"gas_price", "gas_consumed", "data_gas_consumed",
                        "data_gas_price", "overall_fee", "unit">>
                /\ FieldValue(out, "gas_price") = U256Hex(fe.l1_gas_price)
                /\ FieldValue(out, "gas_consumed") = U256Hex(fe.l1_gas_consumed)
                /\ FieldValue(out, "data_gas_consumed") = U256Hex(fe.l1_data_gas_consumed)
                /\ FieldValue(out, "data_gas_price") = U256Hex(fe.l1_data_gas_price)
        /\ FieldValue(out, "overall_fee") = U256Hex(fe.overall_fee)
        /\ FieldValue(out, "unit") = (IF fe.unit = "Wei" THEN <<"W", "E", "I">>
                                      ELSE <<"F", "R", "I">>)
        /\ LET old == serialize(fe, "V07")
               new == serialize(fe, "V08")
           IN /\ FieldValue(old, "gas_price") = FieldValue(new, "l1_gas_price")
              /\ FieldValue(old, "gas_consumed") = FieldValue(new, "l1_gas_consumed")
              /\ FieldValue(old, "data_gas_consumed") = FieldValue(new, "l1_data_gas_consumed")
              /\ FieldValue(old, "data_gas_price") = FieldValue(new, "l1_data_gas_price")
              /\ FieldValue(old, "overall_fee") = FieldValue(new, "overall_fee")
              /\ FieldValue(old, "unit") = FieldValue(new, "unit")

C2_Witness ==
    /\ Len(out) = 6
    /\ version = "V07"
    /\ fe.l1_gas_price = 26
    /\ fe.l1_gas_consumed = 255
    /\ fe.l1_data_gas_consumed = 0
    /\ FieldValue(out, "gas_price") = <<"0", "x", "1", "a">>

RECURSIVE DecValue(_)
DecValue(chars) ==
    IF chars = <<>> THEN 0
    ELSE 10 * DecValue(SubSeq(chars, 1, Len(chars) - 1)) + HexVal(chars[Len(chars)])

\* Reads "Execution error at transaction index <i>: <message>" back.
ParseRevert(s) ==
    LET start == Len(ErrorPrefix) + 1
        colon == CHOOSE j \in start..Len(s) :
                    /\ s[j] = ":"
                    /\ \A h \in start..(j - 1) : s[h] # ":"
    IN [prefix |-> SubSeq(s, 1, Len(ErrorPrefix)),
        index |-> DecValue(SubSeq(s, start, colon - 1)),
        separator |-> SubSeq(s, colon, colon + 1),
        message |-> SubSeq(s, colon + 2, Len(s))]

EngineError == upstream # None /\ upstream.from = "TransactionExecutionError"

\* C3: an engine error becomes an EstimateFeeError of the matching kind: a
\* per-transaction failure at index k with cause m becomes the revert variant
\* whose text reads "Execution error at transaction index k: m" (k and m are
\* read back from it unchanged), Internal stays Internal, Custom stays Custom.
C3_EngineErrorTranslation ==
    (EngineError /\ err # None) =>
        CASE upstream.v.kind = "ExecutionError" ->
                /\ err.kind = "ContractErrorV05"
                /\ DOMAIN err = {"kind", "revert_error"}
                /\ ParseRevert(err.revert_error) =
                      [prefix |-> ErrorPrefix,
                       index |-> upstream.v.transaction_index,
                       separator |-> <<":", " ">>,
                       message |-> upstream.v.error]
          [] upstream.v.kind = "Internal" ->
                err = [kind |-> "Internal", e |-> upstream.v.e]
          [] upstream.v.kind = "Custom" ->
                err = [kind |-> "Custom", e |-> upstream.v.e]

C3_Witness ==
    /\ EngineError
    /\ upstream.v.kind = "ExecutionError"
    /\ upstream.v.transaction_index = 12
    /\ upstream.v.error = <<"1", ":", " ", "x">>
    /\ err # None
    /\ err.kind = "ContractErrorV05"

ConcreteBlock == decoded.k = "Ok" /\ Input.block_id.k # "Pending"

\* the header `h` is the one block_id names on a chain of chainLen blocks
Matches(h, block_id) ==
    /\ h.number \in 0..(chainLen - 1)
    /\ h.hash = HeaderHash(h.number)
    /\ CASE block_id.k = "Number" -> h.number = block_id.number
         [] block_id.k = "Hash" -> h.hash = block_id.hash
         [] block_id.k = "Latest" -> h.number = chainLen - 1

\* C4: for a block id other than Pending the header is fetched from the store;
\* when the fetch finds none the call fails with BlockNotFound, when it finds
\* one the execution state is built with that header and without a pending
\* overlay, and the pending data is never read.
C4_ConcreteBlock ==
    ConcreteBlock =>
        /\ pendingReads = 0
        /\ (pc \in {"simulation", "map", "estimate"}) => headerLookup # None
        /\ (resolved # None \/ state # None) =>
                /\ headerLookup.k = "Ok"
                /\ headerLookup.v.k = "Some"
                /\ Matches(headerLookup.v.v, Input.block_id)
                /\ resolved = [header |-> headerLookup.v.v, pending |-> Nothing]
        /\ state # None =>
                /\ state.header = headerLookup.v.v
                /\ state.pending_state = Nothing
        /\ (headerLookup # None /\ headerLookup.k = "Ok" /\ headerLookup.v.k = "None") =>
                /\ ~(\E h \in {Header(n) : n \in 0..MaxBlocks} : Matches(h, Input.block_id))
                /\ workerResult = Err([kind |-> "BlockNotFound"])
                /\ state = None
                /\ engineCalls = <<>>
                /\ Finished => result = Err([kind |-> "BlockNotFound"])
        /\ (headerLookup # None /\ headerLookup.k = "Ok" /\ headerLookup.v.k = "Some"
                /\ pc \in {"map", "estimate"}) => state # None

C4_Witness ==
    /\ ConcreteBlock
    /\ Input.block_id.k = "Hash"
    /\ chainLen > 0
    /\ Finished
    /\ result.k = "Ok"
    /\ state.header = Header(0)
    /\ state.pending_state = Nothing

\* C5 as the specification states it: one engine call, on the full ordered
\* batch, with validation disabled and the nonce check as the caller asked.
C5_AsSpecified ==
    /\ Len(engineCalls) <= 1
    /\ \A c \in 1..Len(engineCalls) :
        /\ engineCalls[c].transactions =
              [i \in 1..Len(Input.request) |->
                  [transaction |-> Input.request[i], chain_id |-> chain_id]]
        /\ engineCalls[c].skip_validate = TRUE
        /\ engineCalls[c].skip_nonce_check = callerSkipNonceCheck

\* C5 (amended): the engine is invoked at most once, exactly once when step 5
\* is reached, on the full ordered batch of mapped transactions and the state
\* built in step 3, with skip_validate = false (validation stays enabled) and
\* skip_nonce_check = true whatever the caller wishes.
C5_EngineInvocation ==
    /\ Len(engineCalls) <= 1
    /\ \A c \in 1..Len(engineCalls) :
        /\ engineCalls[c].transactions =
              [i \in 1..Len(Input.request) |->
                  [transaction |-> Input.request[i], chain_id |-> chain_id]]
        /\ engineCalls[c].state = state
        /\ engineCalls[c].skip_validate = FALSE
        /\ engineCalls[c].skip_nonce_check = TRUE
    /\ engineOutcome # None => Len(engineCalls) = 1
    /\ pc \in {"received", "decoded", "decode_error"} \cup WorkerPcs => engineCalls = <<>>
    /\ (pc \in {"join", "done"} /\ workerResult.k = "Ok") => Len(engineCalls) = 1
    /\ (pc \in {"join", "done"} /\ mapperVerdict = Some({}) /\ workerResult.k # "Panicked")
            => Len(engineCalls) = 1

C5_Witness ==
    /\ Finished
    /\ Len(engineCalls) = 1
    /\ Len(engineCalls[1].transactions) = 2
    /\ callerSkipNonceCheck = FALSE
    /\ engineCalls[1].skip_nonce_check = TRUE
    /\ engineCalls[1].skip_validate = FALSE

MappingFailed == mapperVerdict # None /\ mapperVerdict.v # {}

\* C6: when the mapper refuses a transaction the whole batch is aborted: the
\* call ends with an Internal or Custom error, no batch (not even a partial
\* one) is kept or returned, and the engine is not invoked.
C6_MappingFailureAborts ==
    MappingFailed =>
        /\ pc \in {"join", "done"}
        /\ transactions = <<>>
        /\ engineCalls = <<>>
        /\ engineOutcome = None
        /\ workerResult.k = "Err"
        /\ workerResult.e.kind \in {"Internal", "Custom"}
        /\ Finished =>
            /\ result.k = "Err"
            /\ result.e.kind \in {"Internal", "Custom"}

C6_Witness ==
    /\ Finished
    /\ mapperVerdict = Some({2})
    /\ Len(Input.request) = 2
    /\ result.k = "Err"

\* C7: the conversion to ApplicationError keeps the variant, one row each:
\* BlockNotFound, ContractNotFound, the revert variant with its text (which
\* reads "Execution error at transaction index i: message"), Internal(cause),
\* Custom(cause); no two variants share an application error.
C7_TaxonomyMapping ==
    appErr # None =>
        /\ appErr.kind =
              (CASE err.kind = "BlockNotFound" -> "BlockNotFound"
                 [] err.kind = "ContractNotFound" -> "ContractNotFound"
                 [] err.kind = "ContractErrorV05" -> "ContractErrorV05"
                 [] err.kind = "Internal" -> "Internal"
                 [] err.kind = "Custom" -> "Custom")
        /\ err.kind \in {"Internal", "Custom"} => appErr.e = err.e
        /\ err.kind = "ContractErrorV05" => appErr.revert_error = err.revert_error
        /\ (EngineError /\ upstream.v.kind = "ExecutionError") =>
                /\ appErr.kind = "ContractErrorV05"
                /\ ParseRevert(appErr.revert_error).index = upstream.v.transaction_index
                /\ ParseRevert(appErr.revert_error).message = upstream.v.error
                /\ ParseRevert(appErr.revert_error).prefix = ErrorPrefix
        /\ \A other \in {[kind |-> "BlockNotFound"], [kind |-> "ContractNotFound"],
                         [kind |-> "ContractErrorV05", revert_error |-> <<>>],
                         [kind |-> "Internal", e |-> <<>>], [kind |-> "Custom", e |-> <<>>]} :
                ToApplicationError(other).kind = appErr.kind => other.kind = err.kind

C7_Witness ==
    /\ appErr = [kind |-> "ContractNotFound"]
    /\ err = [kind |-> "ContractNotFound"]

\* C8: when the blocking worker panics, wherever it does, the awaiting call
\* returns an Internal error: the panic does not reach the calling task, and
\* no other error kind and no success value is returned.
C8_WorkerPanicIsInternal ==
    workerResult.k = "Panicked" =>
        /\ pc \in {"join", "done"}
        /\ caller \in {"awaiting", "returned"}
        /\ Finished =>
            /\ caller = "returned"
            /\ result.k = "Err"
            /\ result.e.kind = "Internal"
            /\ result.e.e[1] = "Executing transaction"

C8_Witness ==
    /\ Finished
    /\ workerResult.k = "Panicked"
    /\ Len(engineCalls) = 1
    /\ result.k = "Err"

RequestJson(json) ==
    CASE json.k = "obj" /\ "request" \in DOMAIN json.fields -> json.fields.request
      [] json.k = "arr" /\ Len(json.items) >= 1 -> json.items[1]
      [] OTHER -> JArr(<<>>)

BlockIdJson(json) ==
    CASE json.k = "obj" /\ "block_id" \in DOMAIN json.fields -> json.fields.block_id
      [] json.k = "arr" /\ Len(json.items) >= 2 -> json.items[2]
      [] OTHER -> JStr(<<>>)

\* a key that no part of the schema knows
HasUnknownField(json) ==
    \/ json.k = "obj" /\ ~(DOMAIN json.fields \subseteq {"request", "block_id"})
    \/ /\ RequestJson(json).k = "arr"
       /\ \E i \in 1..Len(RequestJson(json).items) :
            /\ RequestJson(json).items[i].k = "obj"
            /\ ~(DOMAIN RequestJson(json).items[i].fields
                    \subseteq (InvokeV1Fields \cup InvokeV0Fields))
    \/ /\ BlockIdJson(json).k = "obj"
       /\ ~(DOMAIN BlockIdJson(json).fields \subseteq {"block_number", "block_hash"})

\* C9: the positional and the named encoding of one logical input both decode,
\* to equal values, which are the logical input; the query bit of each
\* transaction version is as sent (a version of 33 hex digits on the wire).
C9_DecoderEquivalence ==
    (client.defect = "none" /\ decoded # None) =>
        /\ decoded = Ok(client.input)
        /\ pc = "decoded" =>
              /\ EstimateFeeInput_deserialize(EncodePositional(client.input, "none")) = decoded
              /\ EstimateFeeInput_deserialize(EncodeNamed(client.input, "none")) = decoded
        /\ \A i \in 1..Len(client.input.request) :
              /\ decoded.v.request[i].version = client.input.request[i].version
              /\ HasQueryVersion(decoded.v.request[i].version)
                    = (Len(RequestJson(params).items[i].fields.version.chars) = 35)

C9_Witness ==
    /\ client.defect = "none"
    /\ client.form = "positional"
    /\ decoded.k = "Ok"
    /\ Len(decoded.v.request) = 2
    /\ HasQueryVersion(decoded.v.request[1].version)
    /\ ~HasQueryVersion(decoded.v.request[2].version)
    /\ decoded.v.block_id = Hash(<<10, 11, 12, 13, 14>>)

\* C10: params holding a field outside the schema fail to decode, and the
\* pipeline is not entered for them.
C10_UnknownFieldRejected ==
    HasUnknownField(params) =>
        /\ decoded # None => decoded.k = "Err"
        /\ pc \in {"received", "decode_error"}
        /\ caller = "idle"
        /\ workerResult = None
        /\ engineCalls = <<>>
        /\ pendingReads = 0
        /\ headerLookup = None
        /\ result = None

C10_Witness ==
    /\ client.defect = "unknown_top"
    /\ client.form = "named"
    /\ HasUnknownField(params)
    /\ pc = "decode_error"

====
